---- MODULE Spec2Model ----
(***************************************************************************)
(* Scan2Score: the evaluation and plagiarism decision engine.              *)
(*                                                                         *)
(*   src/ai_evaluator.py        AIEvaluator: response parser, backend      *)
(*                              router, batch evaluation, rubric generator *)
(*   src/plagiarism_detector.py PlagiarismDetector: detectors, result      *)
(*                              cache, verdict aggregation                 *)
(*   src/app.py                 evaluate_submission: the stored record     *)
(*                                                                         *)
(* The module holds several specifications over one set of variables; each *)
(* specification drives one component and leaves the variables of the      *)
(* other components at their idle values.                                  *)
(*                                                                         *)
(*   SpecParse   _parse_evaluation_response over bounded reply texts       *)
(*   SpecRouter  one evaluate_answer call                                  *)
(*   SpecBatch   batch_evaluate_answers over a batch of requests           *)
(*   SpecVerdict the verdict of comprehensive_plagiarism_check             *)
(*   SpecDetect  the two network detectors, their cache and HTTP client    *)
(*   SpecRubric  one create_custom_rubric call                             *)
(*   SpecSubmission  one request to the evaluation endpoint of src/app.py  *)
(***************************************************************************)
EXTENDS Integers, Sequences, FiniteSets, TLC

VARIABLES
    \* ---- response parser (AIEvaluator._parse_evaluation_response) ----
    response_text,      \* the raw model reply handed to the parser
    evaluation,         \* what the parser returned (NotParsed before the call)
    \* ---- backend router and batch (AIEvaluator.evaluate_answer, ----
    \* ---- AIEvaluator.batch_evaluate_answers)                     ----
    anthropic_client,   \* TRUE when the primary (Claude) client is configured
    openai_client,      \* TRUE when the secondary (GPT) client is configured
    evaluation_requests,\* the requests of the batch, in input order
    backend,            \* per request: what each backend does when called
    tasks,              \* per request: the state of its evaluate_answer call
    done_order,         \* the request indexes in the order their calls ended
    batch,              \* the state of the batch_evaluate_answers call
    \* ---- verdict aggregation                                   ----
    \* ---- (PlagiarismDetector.comprehensive_plagiarism_check)   ----
    ai_result,          \* what gather handed back for the AI detector
    traditional_result, \* what gather handed back for the similarity detector
    patterns,           \* the pattern flags the text triggers
    analysed_text,      \* the words of the text under analysis
    reference_texts,    \* the reference_texts argument: absent or a list of texts
    plagiarism_result,  \* the PlagiarismResult returned (NoResult before)
    \* ---- detectors and result cache (PlagiarismDetector) ----
    gptzero_api_key,    \* TRUE when the GPTZero key is configured
    copyleaks_credentials, \* TRUE when CopyLeaks email and key are configured
    client_strict,      \* TRUE when the installed httpx refuses to enter a
                        \* client twice (0.18 and later), FALSE when it allows it
    async_client,       \* the state of the shared httpx.AsyncClient
    results_cache,      \* cache key -> [result, timestamp]
    clock,              \* datetime.now(), in hours
    calls,              \* the detector calls: each one's position and result
    last_success,       \* history: per cache key, the last complete result a
                        \* call returned and when
    \* ---- rubric generator (AIEvaluator.create_custom_rubric) ----
    rubric_request,     \* the arguments question_type, max_points, criteria_count
    rubric,             \* the rubric returned (NoRubric before the call)
    \* ---- evaluation endpoint (src/app.py evaluate_submission) ----
    evaluation_data,    \* the evaluation record stored (NoRecord before)
    http_response       \* the response of the endpoint (NoResponse before)

parseVars == <<response_text, evaluation>>

evalVars == <<anthropic_client, openai_client, evaluation_requests, backend,
              tasks, done_order, batch>>

verdictVars == <<ai_result, traditional_result, patterns, analysed_text,
                 reference_texts, plagiarism_result>>

detectVars == <<gptzero_api_key, copyleaks_credentials, client_strict,
                async_client, results_cache, clock, calls, last_success>>

rubricVars == <<rubric_request, rubric>>

submissionVars == <<evaluation_data, http_response>>

vars == <<parseVars, evalVars, verdictVars, detectVars, rubricVars,
          submissionVars>>

(***************************************************************************)
(* Bounds of the model.                                                    *)
(***************************************************************************)
\* longest model reply, in tokens
MaxLen == 5
\* most requests in one batch
MaxBatch == 3
\* detector calls that can be in progress at once
MaxCalls == 2
\* the latest hour the clock reaches
MaxClock == 36
\* the largest max_points asked of the rubric generator (its negative is the
\* smallest), besides the default and one value where the product rounds
MaxPoints == 12
\* the largest criteria_count asked for (its negative is the smallest)
MaxCount == 5
\* most reference texts handed to one plagiarism check
MaxRefs == 2

(***************************************************************************)
(* RESPONSE PARSER                                                         *)
(*                                                                         *)
(* A reply is a sequence of tokens, each standing for a piece of text:     *)
(*   "{"   an opening brace                                                *)
(*   "}"   a closing brace                                                 *)
(*   "{a:" an opening brace followed by a key and a colon:  {"a":          *)
(*   "k"   a complete member:  "k": 1                                      *)
(*   "s"   whitespace                                                      *)
(*   "F"   the three backticks followed by the word json                   *)
(*   "E"   three backticks                                                 *)
(* None is a missing reply (message content None).                         *)
(***************************************************************************)
Tokens == {"{", "}", "{a:", "k", "s", "F", "E"}

\* a reply that is no string (a one-token text outside Texts)
None == <<"None">>

NotParsed == [pending |-> TRUE]

Texts == UNION {[1..n -> Tokens] : n \in 0..MaxLen}

\* the character \{ of a pattern matches the first character of these tokens
IsOpenBrace(tok) == tok \in {"{", "{a:"}

\* the three backticks of a pattern match the first characters of these tokens
IsBackticks(tok) == tok \in {"E", "F"}

\* \s* from position i: the first position at or after i that is not whitespace
\* (Len(text)+1 when the text ends first)
RECURSIVE SkipSpace(_, _)
SkipSpace(text, i) ==
    IF i <= Len(text) /\ text[i] = "s" THEN SkipSpace(text, i + 1) ELSE i

\* re.search(r'```json\s*(\{.*?\})\s*```', text, re.DOTALL): the candidate
\* matches as <<start of the fence, start of the group, end of the group>>
FencedMatches(text) ==
    { m \in (1..Len(text)) \X (1..Len(text)) \X (1..Len(text)) :
        /\ text[m[1]] = "F"
        /\ m[2] = SkipSpace(text, m[1] + 1)
        /\ m[2] <= Len(text)
        /\ IsOpenBrace(text[m[2]])
        /\ m[3] > m[2]
        /\ text[m[3]] = "}"
        /\ SkipSpace(text, m[3] + 1) <= Len(text)
        /\ IsBackticks(text[SkipSpace(text, m[3] + 1)]) }

\* the match re.search reports: the leftmost start and, the group's end being
\* lazy (.*?), the nearest closing brace that lets the rest of the pattern match
FencedGroup(text) ==
    LET ms == FencedMatches(text)
        m  == CHOOSE x \in ms :
                \A y \in ms : x[1] < y[1] \/ (x[1] = y[1] /\ x[3] <= y[3])
    IN  SubSeq(text, m[2], m[3])

\* re.search(r'\{.*\}', text, re.DOTALL): from the first opening brace to the
\* last closing brace after it (.* is greedy)
BareOpens(text) == { i \in 1..Len(text) : IsOpenBrace(text[i]) }

FirstOpen(text) == CHOOSE i \in BareOpens(text) : \A j \in BareOpens(text) : i <= j

BareCloses(text) ==
    IF BareOpens(text) = {} THEN {}
    ELSE { j \in 1..Len(text) : j > FirstOpen(text) /\ text[j] = "}" }

LastClose(text) == CHOOSE j \in BareCloses(text) : \A i \in BareCloses(text) : i <= j

BareGroup(text) == SubSeq(text, FirstOpen(text), LastClose(text))

\* whitespace between the tokens of a JSON document is insignificant
StripSpace(s) == SelectSeq(s, LAMBDA tok : tok # "s")

\* json.loads accepts the string: over these tokens a JSON document that starts
\* with a brace is {}, {"k": 1}, or {"a": <object>}
RECURSIVE IsJsonObject(_)
IsJsonObject(t) ==
    /\ Len(t) >= 2
    /\ t[Len(t)] = "}"
    /\ \/ t[1] = "{" /\ (Len(t) = 2 \/ (Len(t) = 3 /\ t[2] = "k"))
       \/ t[1] = "{a:" /\ IsJsonObject(SubSeq(t, 2, Len(t) - 1))

JsonValid(json_str) == IsJsonObject(StripSpace(json_str))

\* json.loads(json_str): the decoded object (the document without its layout)
JsonLoads(json_str) == StripSpace(json_str)

\* the except branch of _parse_evaluation_response
ParseFallback(text, e) ==
    [ success            |-> FALSE,
      error              |-> <<"Failed to parse response", e>>,
      raw_response       |-> text,
      chain_of_thought   |-> <<"parsing_error", e>>,
      total_score        |-> 0,
      max_possible_score |-> 100,
      percentage         |-> 0,
      feedback           |-> [ strengths |-> <<>>,
                               areas_for_improvement |->
                                 <<"Response parsing failed - manual review required">>,
                               specific_suggestions |-> <<>> ] ]

\* the try branch: the string handed to json.loads, or the exception raised
\* before it
JsonCandidate(text) ==
    IF text = None THEN [raised |-> "TypeError"]
    ELSE IF FencedMatches(text) # {} THEN [json_str |-> FencedGroup(text)]
    ELSE IF BareCloses(text) # {} THEN [json_str |-> BareGroup(text)]
    ELSE [raised |-> "No JSON found in response"]

\* a plausible slip: the search runs before the try, so a missing reply's
\* TypeError escapes
ParseEvaluationResponse_SearchOutsideTry(text) ==
    LET c == JsonCandidate(text)
    IN  IF text = None THEN [raised |-> "TypeError"]
        ELSE IF "raised" \in DOMAIN c THEN ParseFallback(text, c.raised)
        ELSE IF ~JsonValid(c.json_str) THEN ParseFallback(text, "JSONDecodeError")
        ELSE [ success      |-> TRUE,
               fields       |-> JsonLoads(c.json_str),
               raw_response |-> text ]

\* AIEvaluator._parse_evaluation_response
ParseEvaluationResponse(text) ==
    LET c == JsonCandidate(text)
    IN  IF "raised" \in DOMAIN c THEN ParseFallback(text, c.raised)
        ELSE IF ~JsonValid(c.json_str) THEN ParseFallback(text, "JSONDecodeError")
        ELSE [ success      |-> TRUE,
               fields       |-> JsonLoads(c.json_str),
               raw_response |-> text ]


(***************************************************************************)
(* BACKEND ROUTER                                                          *)
(***************************************************************************)
claude_model == "claude-3-7-sonnet-20250219"

gpt_model == "gpt-4-turbo-preview"

\* what a backend does when its client is called: the call raises, or it
\* returns a reply text
Raises == [kind |-> "raises", text |-> <<>>]

Reply(t) == [kind |-> "reply", text |-> t]

ReplyFenced == <<"F", "{", "k", "}", "E">>

ReplyBare == <<"k", "{", "}">>

ReplyMalformed == <<"{", "k", "k", "}">>

BackendOutcomes ==
    {Raises, Reply(ReplyFenced), Reply(ReplyMalformed), Reply(None)}

BatchOutcomes == {Raises, Reply(ReplyBare), Reply(ReplyMalformed)}

PreferredModels == {"claude", "Claude", "gpt", "gemini"}

\* str.lower on a preferred_model
Lower(p) == IF p = "Claude" THEN "claude" ELSE p

\* how a call ended: it returned a result, or an exception left it
Returned(r, c) == [status |-> "returned", result |-> r, calls |-> c]

Raised(e, c) == [status |-> "raised", result |-> [error |-> e], calls |-> c]

TaskPending == [status |-> "pending", result |-> [error |-> ""], calls |-> <<>>]

\* the body of evaluate_answer_with_claude / evaluate_answer_with_gpt after the
\* client check: the try block and its except branch
BackendCall(model, outcome) ==
    IF outcome.kind = "raises"
    THEN [ success    |-> FALSE,
           error      |-> "client call failed",
           model_used |-> model,
           timestamp  |-> "now" ]
    ELSE [model_used |-> model, timestamp |-> "now"]
           @@ ParseEvaluationResponse(outcome.text)

\* AIEvaluator.evaluate_answer_with_claude
EvaluateAnswerWithClaude(outcome) ==
    IF ~anthropic_client
    THEN Raised("Anthropic client not initialized. Check API key.", <<"claude">>)
    ELSE Returned(BackendCall(claude_model, outcome), <<"claude">>)

\* AIEvaluator.evaluate_answer_with_gpt
EvaluateAnswerWithGpt(outcome) ==
    IF ~openai_client
    THEN Raised("OpenAI client not initialized. Check API key.", <<"gpt">>)
    ELSE Returned(BackendCall(gpt_model, outcome), <<"gpt">>)

\* a call that follows the calls made so far
After(made, r) == [r EXCEPT !.calls = made \o r.calls]

\* a plausible slip: a request that prefers the secondary is served by the
\* primary when no secondary client is configured
EvaluateAnswer_AnyClient(preferred_model, b) ==
    IF Lower(preferred_model) = "claude" /\ anthropic_client
    THEN LET r == EvaluateAnswerWithClaude(b.claude)
         IN  IF r.status = "returned" THEN r
             ELSE IF openai_client
             THEN After(r.calls, EvaluateAnswerWithGpt(b.gpt))
             ELSE r
    ELSE IF openai_client
    THEN EvaluateAnswerWithGpt(b.gpt)
    ELSE IF anthropic_client
    THEN EvaluateAnswerWithClaude(b.claude)
    ELSE Raised("No AI client available for evaluation", <<>>)

\* a plausible slip: a request that prefers the primary tries the primary
\* whether or not its client is configured
EvaluateAnswer_AlwaysTryPrimary(preferred_model, b) ==
    IF Lower(preferred_model) = "claude"
    THEN LET r == EvaluateAnswerWithClaude(b.claude)
         IN  IF r.status = "returned" THEN r
             ELSE IF openai_client
             THEN After(r.calls, EvaluateAnswerWithGpt(b.gpt))
             ELSE r
    ELSE IF openai_client
    THEN EvaluateAnswerWithGpt(b.gpt)
    ELSE Raised("No AI client available for evaluation", <<>>)

\* AIEvaluator.evaluate_answer
EvaluateAnswer(preferred_model, b) ==
    IF Lower(preferred_model) = "claude" /\ anthropic_client
    THEN LET r == EvaluateAnswerWithClaude(b.claude)
         IN  IF r.status = "returned" THEN r
             ELSE IF openai_client
             THEN After(r.calls, EvaluateAnswerWithGpt(b.gpt))
             ELSE r
    ELSE IF openai_client
    THEN EvaluateAnswerWithGpt(b.gpt)
    ELSE Raised("No AI client available for evaluation", <<>>)

\* the event loop runs the evaluate_answer call of request i to its end
RunTask(i) ==
    /\ batch.status = "running"
    /\ tasks[i].status = "pending"
    /\ tasks' = [tasks EXCEPT
                   ![i] = EvaluateAnswer(evaluation_requests[i].preferred_model,
                                         backend[i])]
    /\ done_order' = Append(done_order, i)
    /\ UNCHANGED <<submissionVars, rubricVars, parseVars, verdictVars, detectVars, anthropic_client,
                   openai_client, evaluation_requests, backend, batch>>

(***************************************************************************)
(* BATCH EVALUATION                                                        *)
(***************************************************************************)
BatchRunning == [status |-> "running", processed_results |-> <<>>]

\* what gather hands back: either the list of results, or the exception that
\* leaves it
Gathered(rs) == [status |-> "returned", results |-> rs]

\* a plausible slip: gather without return_exceptions, so the first exception
\* (in completion order) leaves the batch
Gather_PropagateException(ts, order) ==
    IF \E i \in 1..Len(ts) : ts[i].status = "raised"
    THEN [status |-> "raised", results |-> <<>>]
    ELSE Gathered(ts)

\* a plausible slip: the results are collected as the calls end
\* (asyncio.as_completed), not in input order
Gather_CompletionOrder(ts, order) ==
    Gathered([k \in 1..Len(order) |-> ts[order[k]]])

\* asyncio.gather(*tasks, return_exceptions=True): the outcome of every call,
\* a result or the exception it raised, in the order of the tasks
Gather(ts, order) == Gathered(ts)

\* the loop that converts exceptions to error dictionaries
ProcessResults(results) ==
    [i \in 1..Len(results) |->
        IF results[i].status = "raised"
        THEN [ success       |-> FALSE,
               error         |-> results[i].result.error,
               request_index |-> i - 1,
               timestamp     |-> "now" ]
        ELSE [request_index |-> i - 1] @@ results[i].result]

\* AIEvaluator.batch_evaluate_answers, from the end of run_until_complete
BatchEvaluateAnswers(ts, order) ==
    LET g == Gather(ts, order)
    IN  IF g.status = "raised"
        THEN [status |-> "raised", processed_results |-> <<>>]
        ELSE [status |-> "returned",
              processed_results |-> ProcessResults(g.results)]

\* every call has ended: gather returns and the batch builds its results
BatchReturn ==
    /\ batch.status = "running"
    /\ \A i \in 1..Len(tasks) : tasks[i].status # "pending"
    /\ batch' = BatchEvaluateAnswers(tasks, done_order)
    /\ UNCHANGED <<submissionVars, rubricVars, parseVars, verdictVars, detectVars, anthropic_client,
                   openai_client, evaluation_requests, backend, tasks,
                   done_order>>


(***************************************************************************)
(* VERDICT AGGREGATION                                                     *)
(*                                                                         *)
(* Numbers are integers counting units of 1/30000, so that every threshold *)
(* of the code and the mean of three confidence factors are exact.         *)
(* Dec(n, d) is the number n/d.  A float sum that IEEE-754 double          *)
(* arithmetic rounds just above or just below its decimal value is that    *)
(* value plus or minus one unit.                                           *)
(***************************************************************************)
Unit == 3 * 10000

Dec(n, d) == (n * Unit) \div d

\* the four checks of detect_pattern_based_plagiarism, in the order their
\* weights are added
PatternFlags ==
    {"excessive_quotes", "repetitive_phrases", "unusual_formatting",
     "citation_inconsistencies"}

\* the weight the code adds for a triggered flag
FlagWeight(f) ==
    CASE f = "excessive_quotes"         -> Dec(3, 10)
      [] f = "repetitive_phrases"       -> Dec(4, 10)
      [] f = "unusual_formatting"       -> Dec(2, 10)
      [] f = "citation_inconsistencies" -> Dec(1, 10)

RECURSIVE SumWeights(_)
SumWeights(fs) ==
    IF fs = {} THEN 0
    ELSE LET f == CHOOSE x \in fs : TRUE
         IN  FlagWeight(f) + SumWeights(fs \ {f})

\* the rounding of the double-precision sum 0.0 (+ 0.3) (+ 0.4) (+ 0.2) (+ 0.1):
\* 0.2 + 0.1 = 0.30000000000000004, 0.4 + 0.2 = 0.6000000000000001,
\* 0.4 + 0.2 + 0.1 = 0.7000000000000001, 0.3 + 0.4 + 0.1 = 0.7999999999999999,
\* 0.3 + 0.4 + 0.2 = 0.8999999999999999, all four = 0.9999999999999999
SumRounding(fs) ==
    CASE fs = {"unusual_formatting", "citation_inconsistencies"} -> 1
      [] fs = {"repetitive_phrases", "unusual_formatting"} -> 1
      [] fs = {"repetitive_phrases", "unusual_formatting",
               "citation_inconsistencies"} -> 1
      [] fs = {"excessive_quotes", "repetitive_phrases",
               "citation_inconsistencies"} -> -1
      [] fs = {"excessive_quotes", "repetitive_phrases",
               "unusual_formatting"} -> -1
      [] fs = PatternFlags -> -1
      [] OTHER -> 0

Min(a, b) == IF a < b THEN a ELSE b

\* min(suspicion_score, 1.0) of the weights of the triggered flags
SuspicionScore(fs) == Min(SumWeights(fs) + SumRounding(fs), Dec(1, 1))

\* str.lower on a word
LowerWord(w) == IF w = "A" THEN "a" ELSE w

\* PlagiarismDetector._preprocess_text: lower case; the words carry no
\* special characters and are separated by single spaces
PreprocessText(t) == [i \in DOMAIN t |-> LowerWord(t[i])]

\* set(text.split())
WordSet(t) == {t[i] : i \in DOMAIN t}

\* PlagiarismDetector._calculate_text_similarity: Jaccard similarity of the
\* word sets
CalculateTextSimilarity(text1, text2) ==
    LET words1 == WordSet(text1)
        words2 == WordSet(text2)
    IN  IF words1 = {} /\ words2 = {} THEN Dec(1, 1)
        ELSE IF words1 = {} \/ words2 = {} THEN 0
        ELSE Dec(Cardinality(words1 \cap words2), Cardinality(words1 \cup words2))

\* reference_texts=None
NoReferences == [none |-> TRUE]

\* reference_texts=[...]
References(l) == [list |-> l]

\* the truth value of the argument: None and the empty list are false
Truthy(refs) == "list" \in DOMAIN refs /\ refs.list # <<>>

\* similarity_scores: one score per reference text, in order
SimilarityScores(t, refs) ==
    IF Truthy(refs)
    THEN [i \in DOMAIN refs.list |->
            CalculateTextSimilarity(PreprocessText(t), PreprocessText(refs.list[i]))]
    ELSE <<>>

\* max(similarity_scores) if similarity_scores else 0.0
MaxSimilarity(scores) ==
    IF scores = <<>> THEN 0
    ELSE CHOOSE m \in {scores[i] : i \in DOMAIN scores} :
            \A i \in DOMAIN scores : scores[i] <= m

\* a plausible slip: the similarity to the reference texts counts towards the
\* suspicion score
DetectPatternBasedPlagiarism_SimilarityCounts(fs, t, refs) ==
    [ success                |-> TRUE,
      suspicion_score        |->
          Min(SuspicionScore(fs) + MaxSimilarity(SimilarityScores(t, refs)),
              Dec(1, 1)),
      max_similarity         |-> MaxSimilarity(SimilarityScores(t, refs)),
      patterns_detected      |-> fs,
      reference_similarities |-> SimilarityScores(t, refs),
      timestamp              |-> "now" ]

\* PlagiarismDetector.detect_pattern_based_plagiarism on a text t that
\* triggers the flags fs
DetectPatternBasedPlagiarism(fs, t, refs) ==
    [ success                |-> TRUE,
      suspicion_score        |-> SuspicionScore(fs),
      max_similarity         |-> MaxSimilarity(SimilarityScores(t, refs)),
      patterns_detected      |-> fs,
      reference_similarities |-> SimilarityScores(t, refs),
      timestamp              |-> "now" ]

\* pattern_suspicion * 100 in double precision: the product keeps the side of
\* the decimal value the factor is on, except that 0.7000000000000001 * 100
\* and 0.7999999999999999 * 100 round to 70.0 and 80.0
Times100(x) ==
    LET k == (x + 1) \div Dec(1, 10)
        e == x - k * Dec(1, 10)
    IN  IF k \in {7, 8} THEN k * Dec(1, 10) * 100 ELSE (k * Dec(1, 10) + e) * 100

\* isinstance(result, dict): gather hands back a dict or an exception
IsDict(r) == "exception" \notin DOMAIN r

\* dict.get(key, default)
Get(r, key, default) == IF key \in DOMAIN r THEN r[key] ELSE default

\* the three confidence factors
AiConfidence(ai_probability) ==
    IF ai_probability > Dec(7, 10) THEN Dec(9, 10)
    ELSE IF ai_probability > Dec(5, 10) THEN Dec(7, 10)
    ELSE Dec(3, 10)

TraditionalConfidence(similarity_percentage) ==
    IF similarity_percentage > Dec(30, 1) THEN Dec(9, 10)
    ELSE IF similarity_percentage > Dec(15, 1) THEN Dec(7, 10)
    ELSE Dec(3, 10)

PatternConfidence(pattern_suspicion) ==
    IF pattern_suspicion > Dec(6, 10) THEN Dec(8, 10)
    ELSE IF pattern_suspicion > Dec(3, 10) THEN Dec(6, 10)
    ELSE Dec(4, 10)

\* a plausible slip: the similarity factor reuses the verdict's threshold
OverallConfidence_VerdictThreshold(ai_probability, similarity_percentage, pattern_suspicion) ==
    ( AiConfidence(ai_probability)
      + (IF similarity_percentage > Dec(25, 1) THEN Dec(9, 10)
         ELSE IF similarity_percentage > Dec(15, 1) THEN Dec(7, 10)
         ELSE Dec(3, 10))
      + PatternConfidence(pattern_suspicion) ) \div 3

\* overall_confidence = sum(confidence_factors) / len(confidence_factors)
OverallConfidence(ai_probability, similarity_percentage, pattern_suspicion) ==
    ( AiConfidence(ai_probability)
      + TraditionalConfidence(similarity_percentage)
      + PatternConfidence(pattern_suspicion) ) \div 3

\* a plausible slip: inclusive thresholds
IsPlagiarized_Inclusive(ai_probability, similarity_percentage, pattern_suspicion) ==
    \/ ai_probability >= Dec(7, 10)
    \/ similarity_percentage >= Dec(25, 1)
    \/ pattern_suspicion >= Dec(6, 10)

\* is_plagiarized
IsPlagiarized(ai_probability, similarity_percentage, pattern_suspicion) ==
    \/ ai_probability > Dec(7, 10)
    \/ similarity_percentage > Dec(25, 1)
    \/ pattern_suspicion > Dec(6, 10)

\* a plausible slip: the probability is brought to the percentage scale first
DetectionMethod_Normalised(ai_probability, similarity_percentage, pattern_suspicion) ==
    IF /\ ai_probability * 100 > similarity_percentage
       /\ ai_probability * 100 > Times100(pattern_suspicion)
    THEN "ai_detection"
    ELSE IF similarity_percentage > Times100(pattern_suspicion)
    THEN "traditional_plagiarism"
    ELSE "pattern_based"

\* a plausible slip: the label follows the verdict thresholds
DetectionMethod_ByThreshold(ai_probability, similarity_percentage, pattern_suspicion) ==
    IF ai_probability > Dec(7, 10) THEN "ai_detection"
    ELSE IF similarity_percentage > Dec(25, 1) THEN "traditional_plagiarism"
    ELSE "pattern_based"

\* detection_method
DetectionMethod(ai_probability, similarity_percentage, pattern_suspicion) ==
    IF /\ ai_probability > similarity_percentage
       /\ ai_probability > Times100(pattern_suspicion)
    THEN "ai_detection"
    ELSE IF similarity_percentage > Times100(pattern_suspicion)
    THEN "traditional_plagiarism"
    ELSE "pattern_based"

\* len(text): one character per word and a space between two words
TextLength(t) == IF t = <<>> THEN 0 ELSE 2 * Len(t) - 1

\* a plausible slip: the raw outcome is stored, so an exception leaves no
\* 'error' entry
AuditOf_Raw(r) == r

\* str(exception) under 'error'
AuditOf(r) == IF IsDict(r) THEN r ELSE [error |-> r.exception]

\* PlagiarismDetector.comprehensive_plagiarism_check, from the results of
\* gather on
ComprehensivePlagiarismCheck(ai, traditional, fs, t, refs) ==
    LET pattern_result == DetectPatternBasedPlagiarism(fs, t, refs)
        ai_probability ==
            IF IsDict(ai) /\ Get(ai, "success", FALSE)
            THEN Get(ai, "ai_probability", 0) ELSE 0
        trad_ok == IsDict(traditional) /\ Get(traditional, "success", FALSE)
        similarity_percentage ==
            IF trad_ok THEN Get(traditional, "similarity_percentage", 0) ELSE 0
        sources_found ==
            IF trad_ok THEN Get(traditional, "sources", <<>>) ELSE <<>>
        pattern_suspicion ==
            IF Get(pattern_result, "success", FALSE)
            THEN Get(pattern_result, "suspicion_score", 0) ELSE 0
    IN  [ is_plagiarized |->
              IsPlagiarized(ai_probability, similarity_percentage,
                            pattern_suspicion),
          confidence_score |->
              OverallConfidence(ai_probability, similarity_percentage,
                                pattern_suspicion),
          ai_generated_probability |-> ai_probability,
          sources_found |-> sources_found,
          similarity_percentage |-> similarity_percentage,
          detection_method |->
              DetectionMethod(ai_probability, similarity_percentage,
                              pattern_suspicion),
          timestamp |-> "now",
          additional_info |->
              [ ai_detection_result |-> AuditOf(ai),
                traditional_detection_result |-> AuditOf(traditional),
                pattern_detection_result |-> pattern_result,
                text_length |-> TextLength(t),
                word_count |-> Len(t) ] ]

NoResult == [pending |-> TRUE]

\* what the AI detector can hand back: an exception, a failure, or a success
\* with the probability the backend reported
AiProbabilities ==
    {0, Dec(5, 10), Dec(6, 10), Dec(7, 10), Dec(8, 10), Dec(1, 1), Dec(85, 1)}

AiResults ==
    {[exception |-> "RuntimeError"]}
    \cup {[success |-> FALSE, error |-> "API error: 500", ai_probability |-> 0]}
    \cup {[success |-> TRUE, ai_probability |-> p, timestamp |-> "now"] :
            p \in AiProbabilities}

\* what the similarity detector can hand back: an exception, a failure, the
\* partial "processing" result, or a success with the reported percentage
Similarities ==
    {0, Dec(5, 10), Dec(1, 1), Dec(15, 1), Dec(20, 1), Dec(25, 1), Dec(28, 1),
     Dec(30, 1), Dec(40, 1), Dec(150, 1)}

TraditionalResults ==
    {[exception |-> "RuntimeError"]}
    \cup {[success |-> FALSE, error |-> "Submit error: 500",
           similarity_percentage |-> 0]}
    \cup {[success |-> TRUE, similarity_percentage |-> 0,
           status |-> "processing", timestamp |-> "now"]}
    \cup {[success |-> TRUE, similarity_percentage |-> p,
           sources |-> IF p > 0 THEN <<"source">> ELSE <<>>,
           timestamp |-> "now"] : p \in Similarities}

\* the texts analysed and the reference texts they are compared against
AnalysedTexts == {<<"a", "b">>, <<"A">>}

ReferenceChoices == {<<"A">>, <<"b", "c">>}

RECURSIVE ListsOf(_, _)
ListsOf(S, n) ==
    IF n = 0 THEN {<<>>}
    ELSE ListsOf(S, n - 1)
         \cup {Append(l, x) : l \in {m \in ListsOf(S, n - 1) : Len(m) = n - 1},
                               x \in S}

ReferenceTexts ==
    {NoReferences} \cup {References(l) : l \in ListsOf(ReferenceChoices, MaxRefs)}

\* the aggregation of the three signals
Aggregate ==
    /\ plagiarism_result = NoResult
    /\ plagiarism_result' =
         ComprehensivePlagiarismCheck(ai_result, traditional_result, patterns,
                                      analysed_text, reference_texts)
    /\ UNCHANGED <<submissionVars, rubricVars, parseVars, evalVars, detectVars, ai_result,
                   traditional_result, patterns, analysed_text,
                   reference_texts>>


(***************************************************************************)
(* DETECTORS AND RESULT CACHE                                              *)
(*                                                                         *)
(* A detector call is a coroutine: it runs without interruption from one   *)
(* await of a network response to the next, and the calls in progress      *)
(* interleave at those awaits.  Time is counted in hours.                  *)
(***************************************************************************)
\* self.cache_ttl = timedelta(hours=24)
cache_ttl == 24

\* the clock advances by half the lifetime of a cache entry
TickHours == cache_ttl \div 2

DetectTexts == {"t1"}

\* PlagiarismDetector._generate_text_hash
GenerateTextHash(text) == <<"md5", text>>

\* f"gptzero_{text_hash}" / f"copyleaks_{text_hash}"
CacheKey(prefix, text) == <<prefix, GenerateTextHash(text)>>

CacheKeys == {CacheKey(d, t) : d \in {"gptzero", "copyleaks"}, t \in DetectTexts}

\* PlagiarismDetector._is_cache_valid
IsCacheValid(cache_entry, now) == now - cache_entry.timestamp < cache_ttl

\* cache_key in self.results_cache and self._is_cache_valid(...)
CacheHit(key) ==
    key \in DOMAIN results_cache /\ IsCacheValid(results_cache[key], clock)

\* a plausible slip: the entry is inserted around an empty result whose
\* fields are filled in afterwards
CacheStore_InsertThenFill(key, processed_result) ==
    [k \in DOMAIN results_cache \cup {key} |->
        IF k = key THEN [result |-> [success |-> TRUE], timestamp |-> clock]
        ELSE results_cache[k]]

\* a plausible slip: the cache is rebuilt around the new entry
CacheStore_Evicting(key, processed_result) ==
    [k \in {key} |-> [result |-> processed_result, timestamp |-> clock]]

\* self.results_cache[cache_key] = {'result': ..., 'timestamp': ...}
CacheStore(key, processed_result) ==
    [k \in DOMAIN results_cache \cup {key} |->
        IF k = key THEN [result |-> processed_result, timestamp |-> clock]
        ELSE results_cache[k]]

\* httpx.AsyncClient.__aenter__: whether entering the client raises
EnterRaises == client_strict /\ async_client # "unopened"

\* what the backends report
ReportedProbabilities == {Dec(8, 10)}

ReportedSimilarities == {Dec(40, 1)}

IdleCall == [pc |-> "idle", detector |-> "", text |-> "", result |-> NoResult]

NeverSucceeded == [time |-> -1, result |-> NoResult]

\* the positions at which a call awaits the response to a request it sent
AwaitingResponse == {"post", "token", "submit", "results"}

\* the call returns result r
Return(call, r) == [call EXCEPT !.pc = "done", !.result = r]

\* the call sends a request and awaits the response at pc
Await(call, pc) == [call EXCEPT !.pc = pc]

\* a plausible slip: the failure result leaves the probability out
AiFailure_NoProbability(e) == [success |-> FALSE, error |-> e]

\* the result of a failed AI detection
AiFailure(e) == [success |-> FALSE, error |-> e, ai_probability |-> 0]

\* the result of a failed similarity detection
TraditionalFailure(e) ==
    [success |-> FALSE, error |-> e, similarity_percentage |-> 0]

NewCall(detector, text) ==
    [IdleCall EXCEPT !.detector = detector, !.text = text]

\* the calls are interchangeable: a new one takes the first free place
FirstIdle(c) ==
    /\ calls[c].pc = "idle"
    /\ \A d \in 1..(c - 1) : calls[d].pc # "idle"

\* a plausible slip: the cache is consulted before the key is checked
StartAi_CacheFirst(c, text) ==
    LET call == NewCall("gptzero", text)
        key  == CacheKey("gptzero", text)
    IN  /\ FirstIdle(c)
        /\ IF CacheHit(key)
           THEN /\ calls' = [calls EXCEPT ![c] =
                               Return(call, results_cache[key].result)]
                /\ UNCHANGED async_client
           ELSE IF ~gptzero_api_key
           THEN /\ calls' = [calls EXCEPT ![c] =
                      Return(call, AiFailure("GPTZero API key not provided"))]
                /\ UNCHANGED async_client
           ELSE IF EnterRaises
           THEN /\ calls' = [calls EXCEPT ![c] =
                               Return(call, AiFailure("RuntimeError"))]
                /\ UNCHANGED async_client
           ELSE /\ calls' = [calls EXCEPT ![c] = Await(call, "post")]
                /\ async_client' = "opened"
        /\ UNCHANGED <<submissionVars, rubricVars, parseVars, evalVars, verdictVars, gptzero_api_key,
                       copyleaks_credentials, client_strict, results_cache,
                       clock, last_success>>

\* detect_ai_generated_content(text), up to the await of the response
StartAi(c, text) ==
    LET call == NewCall("gptzero", text)
        key  == CacheKey("gptzero", text)
    IN  /\ FirstIdle(c)
        /\ IF ~gptzero_api_key
           THEN /\ calls' = [calls EXCEPT ![c] =
                      Return(call, AiFailure("GPTZero API key not provided"))]
                /\ UNCHANGED async_client
           ELSE IF CacheHit(key)
           THEN /\ calls' = [calls EXCEPT ![c] =
                               Return(call, results_cache[key].result)]
                /\ UNCHANGED async_client
           ELSE IF EnterRaises
           THEN /\ calls' = [calls EXCEPT ![c] =
                               Return(call, AiFailure("RuntimeError"))]
                /\ UNCHANGED async_client
           ELSE /\ calls' = [calls EXCEPT ![c] = Await(call, "post")]
                /\ async_client' = "opened"
        /\ UNCHANGED <<submissionVars, rubricVars, parseVars, evalVars, verdictVars, gptzero_api_key,
                       copyleaks_credentials, client_strict, results_cache,
                       clock, last_success>>

\* the complete result a call returned, for the history
Remember(key, r) ==
    [last_success EXCEPT ![key] = [time |-> clock, result |-> r]]

\* detect_ai_generated_content from the response on: status is the HTTP
\* status, 0 standing for an exception raised by the request
AiResponse(c, status, p) ==
    LET call == calls[c]
        key  == CacheKey("gptzero", call.text)
        processed_result ==
            [success |-> TRUE, ai_probability |-> p, timestamp |-> clock]
    IN  /\ call.pc = "post"
        /\ async_client' = "closed"
        /\ IF status = 200
           THEN /\ results_cache' = CacheStore(key, processed_result)
                /\ calls' = [calls EXCEPT ![c] = Return(call, processed_result)]
                /\ last_success' = Remember(key, processed_result)
           ELSE /\ calls' = [calls EXCEPT ![c] = Return(call,
                      IF status = 0 THEN AiFailure("RequestError")
                      ELSE AiFailure("API error"))]
                /\ UNCHANGED <<results_cache, last_success>>
        /\ UNCHANGED <<submissionVars, rubricVars, parseVars, evalVars, verdictVars, gptzero_api_key,
                       copyleaks_credentials, client_strict, clock>>

\* detect_traditional_plagiarism(text), up to the await of the token response
StartTraditional(c, text) ==
    LET call == NewCall("copyleaks", text)
        key  == CacheKey("copyleaks", text)
    IN  /\ FirstIdle(c)
        /\ IF ~copyleaks_credentials
           THEN /\ calls' = [calls EXCEPT ![c] = Return(call,
                      [ success |-> FALSE,
                        error |-> "CopyLeaks credentials not provided",
                        similarity_percentage |-> 0,
                        sources |-> <<>> ])]
                /\ UNCHANGED async_client
           ELSE IF CacheHit(key)
           THEN /\ calls' = [calls EXCEPT ![c] =
                               Return(call, results_cache[key].result)]
                /\ UNCHANGED async_client
           ELSE IF EnterRaises
           THEN \* _get_copyleaks_token catches it; its result is returned
                /\ calls' = [calls EXCEPT ![c] = Return(call,
                      [success |-> FALSE, error |-> "Authentication error"])]
                /\ UNCHANGED async_client
           ELSE /\ calls' = [calls EXCEPT ![c] = Await(call, "token")]
                /\ async_client' = "opened"
        /\ UNCHANGED <<submissionVars, rubricVars, parseVars, evalVars, verdictVars, gptzero_api_key,
                       copyleaks_credentials, client_strict, results_cache,
                       clock, last_success>>

\* _get_copyleaks_token from the response on, then detect_traditional_plagiarism
\* up to the await of the submit response
TokenResponse(c, status) ==
    LET call == calls[c]
    IN  /\ call.pc = "token"
        /\ IF status # 200
           THEN /\ calls' = [calls EXCEPT ![c] = Return(call,
                      [ success |-> FALSE,
                        error |-> IF status = 0 THEN "Authentication error"
                                  ELSE "Authentication failed" ])]
                /\ async_client' = "closed"
           ELSE IF client_strict
           THEN \* the client was closed on leaving the token block
                /\ calls' = [calls EXCEPT ![c] =
                               Return(call, TraditionalFailure("RuntimeError"))]
                /\ async_client' = "closed"
           ELSE /\ calls' = [calls EXCEPT ![c] = Await(call, "submit")]
                /\ async_client' = "opened"
        /\ UNCHANGED <<submissionVars, rubricVars, parseVars, evalVars, verdictVars, gptzero_api_key,
                       copyleaks_credentials, client_strict, results_cache,
                       clock, last_success>>

\* the submit response: on 200 or 201 the call sleeps ten seconds and requests
\* the results
SubmitResponse(c, status) ==
    LET call == calls[c]
    IN  /\ call.pc = "submit"
        /\ IF status \in {200, 201}
           THEN /\ calls' = [calls EXCEPT ![c] = Await(call, "results")]
                /\ UNCHANGED async_client
           ELSE /\ calls' = [calls EXCEPT ![c] = Return(call,
                      IF status = 0 THEN TraditionalFailure("RequestError")
                      ELSE TraditionalFailure("Submit error"))]
                /\ async_client' = "closed"
        /\ UNCHANGED <<submissionVars, rubricVars, parseVars, evalVars, verdictVars, gptzero_api_key,
                       copyleaks_credentials, client_strict, results_cache,
                       clock, last_success>>

\* a plausible slip: the "processing" partial result is cached as well
ResultsResponse_CachePartial(c, status, p) ==
    LET call == calls[c]
        key  == CacheKey("copyleaks", call.text)
        scan_id == GenerateTextHash(call.text)
        processed_result ==
            [ success |-> TRUE, scan_id |-> scan_id,
              similarity_percentage |-> p, sources |-> <<"source">>,
              timestamp |-> clock ]
    IN  /\ call.pc = "results"
        /\ async_client' = "closed"
        /\ IF status = 200
           THEN /\ results_cache' = CacheStore(key, processed_result)
                /\ calls' = [calls EXCEPT ![c] = Return(call, processed_result)]
                /\ last_success' = Remember(key, processed_result)
           ELSE IF status = 0
           THEN /\ calls' = [calls EXCEPT ![c] =
                      Return(call, TraditionalFailure("RequestError"))]
                /\ UNCHANGED <<results_cache, last_success>>
           ELSE LET partial == [ success |-> TRUE, scan_id |-> scan_id,
                                 similarity_percentage |-> 0,
                                 status |-> "processing", timestamp |-> clock ]
                IN  /\ results_cache' = CacheStore(key, partial)
                    /\ calls' = [calls EXCEPT ![c] = Return(call, partial)]
                    /\ UNCHANGED last_success
        /\ UNCHANGED <<submissionVars, rubricVars, parseVars, evalVars, verdictVars, gptzero_api_key,
                       copyleaks_credentials, client_strict, clock>>

\* the results response
ResultsResponse(c, status, p) ==
    LET call == calls[c]
        key  == CacheKey("copyleaks", call.text)
        scan_id == GenerateTextHash(call.text)
        processed_result ==
            [ success |-> TRUE, scan_id |-> scan_id,
              similarity_percentage |-> p, sources |-> <<"source">>,
              timestamp |-> clock ]
    IN  /\ call.pc = "results"
        /\ async_client' = "closed"
        /\ IF status = 200
           THEN /\ results_cache' = CacheStore(key, processed_result)
                /\ calls' = [calls EXCEPT ![c] = Return(call, processed_result)]
                /\ last_success' = Remember(key, processed_result)
           ELSE /\ calls' = [calls EXCEPT ![c] = Return(call,
                      IF status = 0 THEN TraditionalFailure("RequestError")
                      ELSE [ success |-> TRUE, scan_id |-> scan_id,
                             similarity_percentage |-> 0,
                             status |-> "processing", timestamp |-> clock ])]
                /\ UNCHANGED <<results_cache, last_success>>
        /\ UNCHANGED <<submissionVars, rubricVars, parseVars, evalVars, verdictVars, gptzero_api_key,
                       copyleaks_credentials, client_strict, clock>>

\* the caller has taken the result of a call
Retire(c) ==
    /\ calls[c].pc = "done"
    /\ calls' = [calls EXCEPT ![c] = IdleCall]
    /\ UNCHANGED <<submissionVars, rubricVars, parseVars, evalVars, verdictVars, gptzero_api_key,
                   copyleaks_credentials, client_strict, async_client,
                   results_cache, clock, last_success>>

\* the host withdraws a credential of the running detector, between calls:
\* the attributes set by __init__ are plain attributes, read afresh by every
\* call (a call in progress has read them already)
ClearCredentials(detector) ==
    /\ \A c \in DOMAIN calls : calls[c].pc = "idle"
    /\ IF detector = "gptzero"
       THEN /\ gptzero_api_key
            /\ gptzero_api_key' = FALSE
            /\ UNCHANGED copyleaks_credentials
       ELSE /\ copyleaks_credentials
            /\ copyleaks_credentials' = FALSE
            /\ UNCHANGED gptzero_api_key
    /\ UNCHANGED <<submissionVars, rubricVars, parseVars, evalVars, verdictVars,
                   client_strict, async_client, results_cache, clock, calls,
                   last_success>>

\* time passes
Tick ==
    /\ clock + TickHours <= MaxClock
    /\ clock' = clock + TickHours
    /\ UNCHANGED <<submissionVars, rubricVars, parseVars, evalVars, verdictVars, gptzero_api_key,
                   copyleaks_credentials, client_strict, async_client,
                   results_cache, calls, last_success>>

(***************************************************************************)
(* RUBRIC GENERATOR                                                        *)
(*                                                                         *)
(* Weights are counted in hundredths.                                      *)
(***************************************************************************)
NoRubric == [pending |-> TRUE]

\* str.lower on a question_type
LowerType(question_type) ==
    IF question_type = "Essay" THEN "essay" ELSE question_type

\* criteria_templates: the weights of the criteria of each template, in order
CriteriaTemplates ==
    [ essay        |-> <<35, 25, 25, 15>>,
      short_answer |-> <<40, 30, 20, 10>>,
      analysis     |-> <<30, 35, 25, 10>> ]

\* criteria_templates.get(question_type.lower(), criteria_templates['short_answer'])
Template(question_type) ==
    IF LowerType(question_type) \in DOMAIN CriteriaTemplates
    THEN CriteriaTemplates[LowerType(question_type)]
    ELSE CriteriaTemplates["short_answer"]

\* template[:criteria_count]: a negative count drops that many from the end
Slice(template, criteria_count) ==
    LET n == Len(template)
        k == IF criteria_count >= n THEN n
             ELSE IF criteria_count >= 0 THEN criteria_count
             ELSE IF n + criteria_count >= 0 THEN n + criteria_count
             ELSE 0
    IN  SubSeq(template, 1, k)

\* int(): the quotient n / d cut toward zero
Trunc(n, d) == IF n >= 0 THEN n \div d ELSE 0 - ((0 - n) \div d)

\* max_points * weight is a double-precision product: 180 * 0.35 is
\* 62.99999999999999 and -180 * 0.35 is -62.99999999999999, one below (above)
\* the whole number 63; for the other products of the values used here the
\* integer part is that of the exact product
ProductSlip(max_points, weight) ==
    IF weight = 35 /\ max_points = 180 THEN 0 - 1
    ELSE IF weight = 35 /\ max_points = 0 - 180 THEN 1
    ELSE 0

\* criterion_points = int(max_points * criterion_template['weight'])
CriterionPoints(max_points, weight) ==
    Trunc(max_points * weight, 100) + ProductSlip(max_points, weight)

\* the five performance levels of a criterion
PerformanceLevels(criterion_points) ==
    << criterion_points,
       Trunc(criterion_points * 8, 10),
       Trunc(criterion_points * 6, 10),
       Trunc(criterion_points * 4, 10),
       0 >>

\* AIEvaluator.create_custom_rubric
CreateCustomRubric(question_type, max_points, criteria_count) ==
    LET template == Slice(Template(question_type), criteria_count)
    IN  [ question_type |-> question_type,
          total_points  |-> max_points,
          criteria      |->
              [i \in 1..Len(template) |->
                  [ weight             |-> template[i],
                    max_points         |-> CriterionPoints(max_points, template[i]),
                    performance_levels |->
                        PerformanceLevels(CriterionPoints(max_points, template[i])) ]] ]

\* the arguments a caller passes: the request body of /api/generate-rubric is
\* not validated
QuestionTypes == {"essay", "Essay", "short_answer", "analysis", "quiz"}

PointChoices == ((0 - MaxPoints)..MaxPoints) \cup {100, 180}

CountChoices == (0 - MaxCount)..MaxCount

\* one call of the rubric generator
GenerateRubric ==
    /\ rubric = NoRubric
    /\ rubric' = CreateCustomRubric(rubric_request.question_type,
                                    rubric_request.max_points,
                                    rubric_request.criteria_count)
    /\ UNCHANGED <<rubric_request, parseVars, evalVars, verdictVars, detectVars,
                   submissionVars>>

(***************************************************************************)
(* EVALUATION ENDPOINT                                                     *)
(*                                                                         *)
(* evaluate_submission from the AI evaluation on (src/app.py:503-589); the *)
(* request has passed validation and names a submission with text.         *)
(***************************************************************************)
NoRecord == [stored |-> FALSE]

NoResponse == [pending |-> TRUE]

\* the confidence_level a successful reply can carry
ConfidenceLevels == {"High", "Medium", "Low"}

\* evaluation_result.get('confidence_level') == 'Low': a successful result
\* carries the level of the reply, a failure result carries the key only if
\* the code that built it put it there
IsLowConfidence(evaluation_result, level) ==
    IF evaluation_result.success
    THEN level = "Low"
    ELSE /\ "confidence_level" \in DOMAIN evaluation_result
         /\ evaluation_result.confidence_level = "Low"

\* the score fields of a successful reply are the reply's own
ScoreOf(evaluation_result, key, default) ==
    IF evaluation_result.success THEN [reply |-> key]
    ELSE [value |-> Get(evaluation_result, key, default)]

\* evaluation_data (the ids, question and answer are copied from the request)
EvaluationData(evaluation_result, p, level) ==
    [ stored             |-> TRUE,
      ai_evaluation      |-> evaluation_result,
      plagiarism_result  |->
          [ is_plagiarized           |-> p.is_plagiarized,
            confidence_score         |-> p.confidence_score,
            ai_generated_probability |-> p.ai_generated_probability,
            similarity_percentage    |-> p.similarity_percentage,
            detection_method         |-> p.detection_method,
            sources_found            |-> p.sources_found,
            additional_info          |-> p.additional_info ],
      total_score        |-> ScoreOf(evaluation_result, "total_score", 0),
      max_possible_score |-> ScoreOf(evaluation_result, "max_possible_score", 100),
      percentage         |-> ScoreOf(evaluation_result, "percentage", 0),
      needs_review       |->
          p.is_plagiarized \/ IsLowConfidence(evaluation_result, level) ]

\* the handler: AI evaluation, plagiarism check, record, response; an
\* exception anywhere ends in the 500 response of the outer except
EvaluateSubmission ==
    /\ http_response = NoResponse
    /\ Len(tasks) = 1 /\ tasks[1].status = "pending"
    /\ LET r == EvaluateAnswer(evaluation_requests[1].preferred_model, backend[1])
       IN  /\ tasks' = <<r>>
           /\ IF r.status = "raised"
              THEN /\ http_response' = [status |-> 500, error |-> "Evaluation failed"]
                   /\ UNCHANGED <<plagiarism_result, evaluation_data>>
              ELSE \E level \in ConfidenceLevels :
                   LET p == ComprehensivePlagiarismCheck(
                                ai_result, traditional_result, patterns,
                                analysed_text, reference_texts)
                   IN  /\ plagiarism_result' = p
                       /\ evaluation_data' = EvaluationData(r.result, p, level)
                       /\ http_response' =
                            [ status  |-> 200,
                              message |-> "Evaluation completed successfully" ]
    /\ UNCHANGED <<rubricVars, parseVars, detectVars, anthropic_client,
                   openai_client, evaluation_requests, backend, done_order,
                   batch, ai_result, traditional_result, patterns,
                   analysed_text, reference_texts>>

(***************************************************************************)
(* SPECIFICATIONS                                                          *)
(***************************************************************************)
ParseIdle == response_text = None /\ evaluation = NotParsed

EvalIdle ==
    /\ anthropic_client = FALSE
    /\ openai_client = FALSE
    /\ evaluation_requests = <<>>
    /\ backend = <<>>
    /\ tasks = <<>>
    /\ done_order = <<>>
    /\ batch = BatchRunning

VerdictIdle ==
    /\ ai_result = [exception |-> "idle"]
    /\ traditional_result = [exception |-> "idle"]
    /\ patterns = {}
    /\ analysed_text = <<>>
    /\ reference_texts = NoReferences
    /\ plagiarism_result = NoResult

DetectIdle ==
    /\ gptzero_api_key = FALSE
    /\ copyleaks_credentials = FALSE
    /\ client_strict = TRUE
    /\ async_client = "unopened"
    /\ results_cache = <<>>
    /\ clock = 0
    /\ calls = <<>>
    /\ last_success = <<>>

SubmissionIdle == evaluation_data = NoRecord /\ http_response = NoResponse

RubricIdle == rubric_request = [idle |-> TRUE] /\ rubric = NoRubric

ParseInit ==
    /\ RubricIdle
    /\ SubmissionIdle
    /\ response_text \in Texts \cup {None}
    /\ evaluation = NotParsed
    /\ EvalIdle
    /\ VerdictIdle
    /\ DetectIdle

\* one call of the parser on the reply
Parse ==
    /\ evaluation = NotParsed
    /\ evaluation' = ParseEvaluationResponse(response_text)
    /\ UNCHANGED <<response_text, evalVars, verdictVars, detectVars, rubricVars,
                   submissionVars>>

SpecParse == ParseInit /\ [][Parse]_vars

\* one evaluate_answer call, every configuration, preference and backend
\* behaviour
RouterInit ==
    /\ RubricIdle
    /\ SubmissionIdle
    /\ ParseIdle
    /\ anthropic_client \in BOOLEAN
    /\ openai_client \in BOOLEAN
    /\ \E p \in PreferredModels :
          evaluation_requests = <<[preferred_model |-> p]>>
    /\ \E c \in BackendOutcomes, g \in BackendOutcomes :
          backend = <<[claude |-> c, gpt |-> g]>>
    /\ tasks = <<TaskPending>>
    /\ done_order = <<>>
    /\ batch = BatchRunning
    /\ VerdictIdle
    /\ DetectIdle

SpecRouter == RouterInit /\ [][\E i \in 1..Len(tasks) : RunTask(i)]_vars

\* a batch of up to MaxBatch requests
BatchInit ==
    /\ RubricIdle
    /\ SubmissionIdle
    /\ ParseIdle
    /\ anthropic_client \in BOOLEAN
    /\ openai_client \in BOOLEAN
    /\ \E n \in 0..MaxBatch :
          /\ evaluation_requests \in
                [1..n -> [preferred_model : {"claude", "gpt"}]]
          /\ backend \in
                [1..n -> {[claude |-> o, gpt |-> o] : o \in BatchOutcomes}]
          /\ tasks = [i \in 1..n |-> TaskPending]
    /\ done_order = <<>>
    /\ batch = BatchRunning
    /\ VerdictIdle
    /\ DetectIdle

BatchNext ==
    \/ \E i \in 1..Len(tasks) : RunTask(i)
    \/ BatchReturn

SpecBatch == BatchInit /\ [][BatchNext]_vars

\* one aggregation, over what the detectors can hand back
VerdictInit ==
    /\ RubricIdle
    /\ SubmissionIdle
    /\ ParseIdle
    /\ EvalIdle
    /\ ai_result \in AiResults
    /\ traditional_result \in TraditionalResults
    /\ patterns \in SUBSET PatternFlags
    /\ analysed_text \in AnalysedTexts
    /\ reference_texts \in ReferenceTexts
    /\ plagiarism_result = NoResult
    /\ DetectIdle

SpecVerdict == VerdictInit /\ [][Aggregate]_vars

\* the detectors of one PlagiarismDetector, called again and again as time
\* passes
DetectInit ==
    /\ RubricIdle
    /\ SubmissionIdle
    /\ ParseIdle
    /\ EvalIdle
    /\ VerdictIdle
    /\ gptzero_api_key \in BOOLEAN
    /\ copyleaks_credentials \in BOOLEAN
    /\ client_strict \in BOOLEAN
    /\ async_client = "unopened"
    /\ results_cache = <<>>
    /\ clock = 0
    /\ calls = [c \in 1..MaxCalls |-> IdleCall]
    /\ last_success = [k \in CacheKeys |-> NeverSucceeded]

HttpStatuses == {0, 200, 500}

DetectNext ==
    \/ \E c \in 1..MaxCalls, t \in DetectTexts : StartAi(c, t)
    \/ \E c \in 1..MaxCalls, t \in DetectTexts : StartTraditional(c, t)
    \/ \E c \in 1..MaxCalls, st \in HttpStatuses, p \in ReportedProbabilities :
          AiResponse(c, st, p)
    \/ \E c \in 1..MaxCalls, st \in HttpStatuses : TokenResponse(c, st)
    \/ \E c \in 1..MaxCalls, st \in HttpStatuses \cup {201} :
          SubmitResponse(c, st)
    \/ \E c \in 1..MaxCalls, st \in HttpStatuses, p \in ReportedSimilarities :
          ResultsResponse(c, st, p)
    \/ \E c \in 1..MaxCalls : Retire(c)
    \/ \E d \in {"gptzero", "copyleaks"} : ClearCredentials(d)
    \/ Tick

SpecDetect == DetectInit /\ [][DetectNext]_vars

\* one call of create_custom_rubric, over the arguments a caller can pass
RubricInit ==
    /\ SubmissionIdle
    /\ ParseIdle
    /\ EvalIdle
    /\ VerdictIdle
    /\ DetectIdle
    /\ rubric_request \in [ question_type  : QuestionTypes,
                            max_points     : PointChoices,
                            criteria_count : CountChoices ]
    /\ rubric = NoRubric

SpecRubric == RubricInit /\ [][GenerateRubric]_vars

\* one request to the evaluation endpoint: every client configuration and
\* preference, what the backends do, and what the detectors hand back for a
\* text that triggers none or all of the pattern flags; the endpoint passes
\* no reference texts
SubmissionInit ==
    /\ RubricIdle
    /\ ParseIdle
    /\ SubmissionIdle
    /\ DetectIdle
    /\ anthropic_client \in BOOLEAN
    /\ openai_client \in BOOLEAN
    /\ \E p \in {"claude", "gpt"} :
          evaluation_requests = <<[preferred_model |-> p]>>
    /\ \E c \in BackendOutcomes, g \in BackendOutcomes :
          backend = <<[claude |-> c, gpt |-> g]>>
    /\ tasks = <<TaskPending>>
    /\ done_order = <<>>
    /\ batch = BatchRunning
    /\ ai_result \in AiResults
    /\ traditional_result \in TraditionalResults
    /\ patterns \in {{}, PatternFlags}
    /\ analysed_text \in AnalysedTexts
    /\ reference_texts = NoReferences
    /\ plagiarism_result = NoResult

SpecSubmission == SubmissionInit /\ [][EvaluateSubmission]_vars

(***************************************************************************)
(* CLAIMS                                                                  *)
(***************************************************************************)
Ended(i) == tasks[i].status # "pending"

\* C1 (as claimed): with both backends configured and preferred "claude",
\* when the primary client call raises and the secondary replies,
\* evaluate_answer returns a result whose model_used is the GPT model and
\* whose success is that of the secondary's reply.
C1_RouterFallback ==
    \A i \in 1..Len(tasks) :
        ( /\ Ended(i)
          /\ anthropic_client /\ openai_client
          /\ evaluation_requests[i].preferred_model = "claude"
          /\ backend[i].claude = Raises
          /\ backend[i].gpt.kind = "reply" )
        => /\ tasks[i].status = "returned"
           /\ tasks[i].result.model_used = gpt_model
           /\ tasks[i].result.success
                = ParseEvaluationResponse(backend[i].gpt.text).success

\* the reply holds no JSON object the parser can use: nothing matches, or
\* what matches is not a JSON document
Unparsable(text) ==
    \/ text = None
    \/ /\ FencedMatches(text) = {}
       /\ BareCloses(text) = {}
    \/ /\ FencedMatches(text) # {}
       /\ ~JsonValid(FencedGroup(text))
    \/ /\ FencedMatches(text) = {}
       /\ BareCloses(text) # {}
       /\ ~JsonValid(BareGroup(text))

\* C2: for every reply in which no JSON object is matched or the matched
\* substring is malformed (a missing reply included), the parser does not
\* raise and returns the fallback shape: success false, an error, total_score
\* 0, max_possible_score 100, percentage 0, the manual-review entry in
\* feedback.areas_for_improvement, and the raw reply.
C2_ParserFallbackTotal ==
    (evaluation # NotParsed /\ Unparsable(response_text))
    => /\ DOMAIN evaluation =
            {"success", "error", "raw_response", "chain_of_thought",
             "total_score", "max_possible_score", "percentage", "feedback"}
       /\ evaluation.success = FALSE
       /\ evaluation.error[1] = "Failed to parse response"
       /\ evaluation.total_score = 0
       /\ evaluation.max_possible_score = 100
       /\ evaluation.percentage = 0
       /\ evaluation.feedback.areas_for_improvement =
            <<"Response parsing failed - manual review required">>
       /\ evaluation.raw_response = response_text

\* C2's case: a fenced block was matched and its content is malformed
C2_Witness ==
    /\ evaluation # NotParsed
    /\ response_text # None
    /\ FencedMatches(response_text) # {}
    /\ ~JsonValid(FencedGroup(response_text))
    /\ evaluation.success = FALSE

\* the JSON objects a reply holds, as <<first token, last token>>
ObjectsIn(text) ==
    { o \in (1..Len(text)) \X (1..Len(text)) :
        /\ o[1] < o[2]
        /\ IsOpenBrace(text[o[1]])
        /\ JsonValid(SubSeq(text, o[1], o[2])) }

\* C3 (as claimed): for any reply that holds a valid JSON object, fenced or
\* bare, whatever surrounds it (other braces included), the parser returns
\* an object of the reply with success true and raw_response the full reply.
C3_ParserSuccess ==
    ( /\ evaluation # NotParsed
      /\ response_text # None
      /\ ObjectsIn(response_text) # {} )
    => /\ evaluation.success = TRUE
       /\ evaluation.raw_response = response_text
       /\ \E o \in ObjectsIn(response_text) :
            evaluation.fields = JsonLoads(SubSeq(response_text, o[1], o[2]))

\* a result object: it carries success and, when success is false, an error
IsResultObject(r) ==
    /\ "success" \in DOMAIN r
    /\ (~r.success => "error" \in DOMAIN r)

\* C4 (as claimed): no evaluation or detection call lets an exception escape:
\* whatever the configuration and the backends do, evaluate_answer and the
\* detectors return a result that carries success and, when success is false,
\* an error.
C4_NoExceptionEscapes ==
    /\ \A i \in 1..Len(tasks) :
          Ended(i) => /\ tasks[i].status = "returned"
                      /\ IsResultObject(tasks[i].result)
    /\ \A c \in DOMAIN calls :
          calls[c].pc = "done" => IsResultObject(calls[c].result)
    /\ plagiarism_result # NoResult
          => IsResultObject(
                 plagiarism_result.additional_info.pattern_detection_result)

\* record rec carries what the evaluate_answer call of request i returned
CarriesResultOf(i, rec) ==
    \A f \in DOMAIN tasks[i].result : rec[f] = tasks[i].result[f]

\* C5: when the evaluation of a request raises, the batch call does not
\* raise, that request yields a record with success false and the error, and
\* every other request's record holds exactly its own call's result.
C5_BatchIsolation ==
    batch.status # "running"
    => /\ batch.status = "returned"
       /\ Len(batch.processed_results) = Len(evaluation_requests)
       /\ \A i \in 1..Len(tasks) :
            IF tasks[i].status = "raised"
            THEN /\ batch.processed_results[i].success = FALSE
                 /\ batch.processed_results[i].error = tasks[i].result.error
            ELSE /\ CarriesResultOf(i, batch.processed_results[i])
                 /\ DOMAIN batch.processed_results[i] =
                      DOMAIN tasks[i].result \cup {"request_index"}

\* C5's case: a batch of three whose second request raised and whose first and
\* third returned their own, different, results
C5_Witness ==
    /\ batch.status = "returned"
    /\ Len(tasks) = 3
    /\ tasks[2].status = "raised"
    /\ tasks[1].status = "returned" /\ tasks[3].status = "returned"
    /\ batch.processed_results[1].success = TRUE
    /\ batch.processed_results[2].success = FALSE
    /\ batch.processed_results[3].success = FALSE

\* C6: a batch of N requests returns N results, and the i-th result is the
\* outcome of the i-th request and carries its index, whatever order the
\* evaluations ended in.
C6_BatchOrder ==
    batch.status = "returned"
    => /\ Len(batch.processed_results) = Len(evaluation_requests)
       /\ \A i \in 1..Len(evaluation_requests) :
            /\ batch.processed_results[i].request_index = i - 1
            /\ batch.processed_results[i].success
                 = (tasks[i].status = "returned" /\ tasks[i].result.success)
            /\ tasks[i].status = "returned"
                 => batch.processed_results[i].model_used
                      = tasks[i].result.model_used

\* C6's case: the evaluations ended in an order other than the input order,
\* with different outcomes
C6_Witness ==
    /\ batch.status = "returned"
    /\ Len(batch.processed_results) = 3
    /\ done_order = <<3, 1, 2>>
    /\ batch.processed_results[1].success = TRUE
    /\ batch.processed_results[2].success = FALSE
    /\ batch.processed_results[3].request_index = 2

\* the three signals the aggregation used
UsedAi == plagiarism_result.ai_generated_probability

UsedSimilarity == plagiarism_result.similarity_percentage

UsedPattern ==
    plagiarism_result.additional_info.pattern_detection_result.suspicion_score

\* C7: is_plagiarized is true if and only if ai_probability > 0.7 or
\* similarity_percentage > 25 or pattern_suspicion > 0.6, all strict.
C7_VerdictRule ==
    plagiarism_result # NoResult
    => ( plagiarism_result.is_plagiarized
         <=> \/ 10 * UsedAi > 7 * Unit
             \/ UsedSimilarity > 25 * Unit
             \/ 10 * UsedPattern > 6 * Unit )

\* C7's case: every signal sits exactly on its threshold and the verdict is
\* negative
C7_Witness ==
    /\ plagiarism_result # NoResult
    /\ 10 * UsedAi = 7 * Unit
    /\ UsedSimilarity = 25 * Unit
    /\ 10 * UsedPattern = 6 * Unit
    /\ ~plagiarism_result.is_plagiarized

\* the buckets of C8, in tenths
AiBucket(x) == IF 10 * x > 7 * Unit THEN 9 ELSE IF 10 * x > 5 * Unit THEN 7 ELSE 3

SimilarityBucket(x) == IF x > 30 * Unit THEN 9 ELSE IF x > 15 * Unit THEN 7 ELSE 3

PatternBucket(x) == IF 10 * x > 6 * Unit THEN 8 ELSE IF 10 * x > 3 * Unit THEN 6 ELSE 4

\* C8: confidence_score is the mean of three contributions: 0.9 / 0.7 / 0.3 for
\* ai_probability above 0.7 / above 0.5 / else, 0.9 / 0.7 / 0.3 for
\* similarity_percentage above 30 / above 15 / else, 0.8 / 0.6 / 0.4 for
\* pattern_suspicion above 0.6 / above 0.3 / else, also when a detector failed
\* and its signal is 0.
C8_ConfidenceRule ==
    plagiarism_result # NoResult
    => /\ 30 * plagiarism_result.confidence_score
            = ( AiBucket(UsedAi) + SimilarityBucket(UsedSimilarity)
                + PatternBucket(UsedPattern) ) * Unit
       /\ ~(IsDict(ai_result) /\ ai_result.success) => UsedAi = 0
       /\ ~(IsDict(traditional_result) /\ traditional_result.success)
            => UsedSimilarity = 0

\* C8's case: the AI detector raised, the similarity is between the verdict's
\* threshold and the confidence bucket's, and the mean is (0.3 + 0.7 + 0.8) / 3
C8_Witness ==
    /\ plagiarism_result # NoResult
    /\ ~IsDict(ai_result)
    /\ UsedSimilarity = 28 * Unit
    /\ 10 * UsedPattern > 6 * Unit
    /\ 30 * plagiarism_result.confidence_score = 18 * Unit

\* C9: detection_method is "ai_detection" exactly when ai_probability exceeds
\* similarity_percentage and pattern_suspicion*100; otherwise it is
\* "traditional_plagiarism" exactly when similarity_percentage exceeds
\* pattern_suspicion*100; otherwise it is "pattern_based".
C9_MethodLabelRule ==
    plagiarism_result # NoResult
    => LET ai_wins   == /\ UsedAi > UsedSimilarity
                        /\ UsedAi > Times100(UsedPattern)
           trad_wins == UsedSimilarity > Times100(UsedPattern)
       IN  /\ plagiarism_result.detection_method \in
                {"ai_detection", "traditional_plagiarism", "pattern_based"}
           /\ plagiarism_result.detection_method = "ai_detection" <=> ai_wins
           /\ plagiarism_result.detection_method = "traditional_plagiarism"
                <=> (~ai_wins /\ trad_wins)
           /\ plagiarism_result.detection_method = "pattern_based"
                <=> (~ai_wins /\ ~trad_wins)

\* C9's case: an AI probability of 0.8 loses the label to a similarity of 1
\* per cent
C9_Witness ==
    /\ plagiarism_result # NoResult
    /\ 10 * UsedAi = 8 * Unit
    /\ UsedSimilarity = Unit
    /\ UsedPattern = 0
    /\ plagiarism_result.detection_method = "traditional_plagiarism"

\* call c begins in this step
Begins(c) == calls[c].pc = "idle" /\ calls'[c].pc # "idle"

\* the credentials of the detector of a call are missing
CredentialsMissing(call) ==
    IF call.detector = "gptzero" THEN ~gptzero_api_key ELSE ~copyleaks_credentials

\* C10 (as claimed): once a detector call for a text has returned a complete
\* result, a call of the same detector (credentials present) with the same
\* text less than 24 hours later returns that result and sends no request; a call 24 hours or more
\* later does not return it and sends a new request.
C10_CacheCorrectness ==
    [][ \A c \in DOMAIN calls :
          (Begins(c) /\ ~CredentialsMissing(calls'[c])) =>
            LET prev == last_success[CacheKey(calls'[c].detector, calls'[c].text)]
            IN  prev # NeverSucceeded =>
                  IF clock - prev.time < cache_ttl
                  THEN /\ calls'[c].pc = "done"
                       /\ calls'[c].result = prev.result
                  ELSE calls'[c].pc \in AwaitingResponse ]_vars

\* the calls of a detector that have returned
Done(detector) ==
    { c \in DOMAIN calls : calls[c].pc = "done" /\ calls[c].detector = detector }

\* C11: on missing credentials, on a non-200 response and on an exception
\* during the request, detect_ai_generated_content returns a result with
\* success false, an error and ai_probability 0; without credentials it
\* returns nothing else.
C11_AiFailureShape ==
    \A c \in Done("gptzero") :
        LET r == calls[c].result
        IN  /\ "success" \in DOMAIN r
            /\ ~gptzero_api_key => ~r.success
            /\ ~r.success
                 => /\ DOMAIN r = {"success", "error", "ai_probability"}
                    /\ r.error \in {"GPTZero API key not provided", "API error",
                                    "RequestError", "RuntimeError"}
                    /\ r.ai_probability = 0

\* C11's case: calls have failed on a non-200 response and on an exception
\* of the request
C11_Witness ==
    /\ \E c \in Done("gptzero") : calls[c].result.success = FALSE
                                   /\ calls[c].result.error = "API error"
    /\ \E c \in Done("gptzero") : calls[c].result.success = FALSE
                                   /\ calls[c].result.error = "RequestError"

\* C12 (as claimed): every result of detect_traditional_plagiarism with
\* success false (missing credentials, token failure, submit error, an
\* exception at any step) contains similarity_percentage 0.
C12_TraditionalFailureShape ==
    \A c \in Done("copyleaks") :
        LET r == calls[c].result
        IN  /\ "success" \in DOMAIN r
            /\ ~copyleaks_credentials => ~r.success
            /\ ~r.success
                 => /\ "error" \in DOMAIN r
                    /\ "similarity_percentage" \in DOMAIN r
                    /\ r.similarity_percentage = 0

\* the identifier of the backend whose call produced the result of request i
ProducedBy(i) ==
    IF tasks[i].calls[Len(tasks[i].calls)] = "claude" THEN claude_model
    ELSE gpt_model

Criteria == rubric.criteria

\* a sequence of numbers that never goes up
NonIncreasing(levels) ==
    \A k \in 1..(Len(levels) - 1) : levels[k] >= levels[k + 1]

\* C14 (as claimed): for all inputs, the rubric has exactly criteria_count
\* criteria (the template's 4 when criteria_count is larger), each with
\* max_points <= the max_points asked for and exactly five performance levels
\* whose points are non-increasing from first to last.
C14_RubricShape ==
    rubric # NoRubric
    => /\ Len(Criteria) = IF rubric_request.criteria_count > 4 THEN 4
                          ELSE rubric_request.criteria_count
       /\ \A i \in 1..Len(Criteria) :
             /\ Criteria[i].max_points <= rubric_request.max_points
             /\ Len(Criteria[i].performance_levels) = 5
             /\ NonIncreasing(Criteria[i].performance_levels)

\* round(): n / d to the nearest whole number, a tie to the even one
Round(n, d) ==
    LET q == n \div d
        r == n - q * d
    IN  IF 2 * r < d THEN q
        ELSE IF 2 * r > d THEN q + 1
        ELSE IF q % 2 = 0 THEN q ELSE q + 1

\* level is p tenths of points, up to the fraction of a point
CarriesTenths(level, p, points) ==
    /\ 10 * level - p * points < 10
    /\ p * points - 10 * level < 10

\* C15 (as claimed): each criterion's max_points is round(max_points * weight)
\* of the selected template (any type other than essay, short_answer and
\* analysis selects short_answer), and its five performance levels carry 100%,
\* 80%, 60%, 40% and 0% of that criterion's points.
C15_RubricPoints ==
    rubric # NoRubric
    => LET t == LowerType(rubric_request.question_type)
           weights == IF t \in {"essay", "analysis"} THEN CriteriaTemplates[t]
                      ELSE CriteriaTemplates["short_answer"]
       IN  \A i \in 1..Len(Criteria) :
             LET levels == Criteria[i].performance_levels
                 points == Criteria[i].max_points
             IN  /\ Criteria[i].weight = weights[i]
                 /\ points = Round(rubric_request.max_points * weights[i], 100)
                 /\ Len(levels) = 5
                 /\ levels[1] = points
                 /\ CarriesTenths(levels[2], 8, points)
                 /\ CarriesTenths(levels[3], 6, points)
                 /\ CarriesTenths(levels[4], 4, points)
                 /\ levels[5] = 0

\* the weighted sum of C16, in tenths
TenthsFlagged(fs) ==
    (IF "excessive_quotes" \in fs THEN 3 ELSE 0)
    + (IF "repetitive_phrases" \in fs THEN 4 ELSE 0)
    + (IF "unusual_formatting" \in fs THEN 2 ELSE 0)
    + (IF "citation_inconsistencies" \in fs THEN 1 ELSE 0)

\* C16 (as claimed): the suspicion_score of detect_pattern_based_plagiarism is
\* min(1.0, 0.3 * [quotes] + 0.4 * [repetition] + 0.2 * [formatting]
\* + 0.1 * [citations]); it is 0 when no flag is triggered and never exceeds 1.
C16_SuspicionScore ==
    plagiarism_result # NoResult
    => LET r == plagiarism_result.additional_info.pattern_detection_result
       IN  /\ r.patterns_detected = patterns
           /\ 10 * r.suspicion_score = Min(10, TenthsFlagged(patterns)) * Unit
           /\ patterns = {} => r.suspicion_score = 0
           /\ r.suspicion_score <= Unit

\* C17 (as claimed): whatever the detection backends report, the result of
\* comprehensive_plagiarism_check has confidence_score in [0, 1],
\* ai_generated_probability in [0, 1] and similarity_percentage in [0, 100].
C17_ResultRanges ==
    plagiarism_result # NoResult
    => /\ 0 <= plagiarism_result.confidence_score
       /\ plagiarism_result.confidence_score <= Unit
       /\ 0 <= plagiarism_result.ai_generated_probability
       /\ plagiarism_result.ai_generated_probability <= Unit
       /\ 0 <= plagiarism_result.similarity_percentage
       /\ plagiarism_result.similarity_percentage <= 100 * Unit

\* the requests that name the primary backend
PrefersPrimary(i) == Lower(evaluation_requests[i].preferred_model) = "claude"

\* C18 (as claimed): every request with preferred = primary follows
\* requested -> primary_attempted -> {success | fallback_attempted}
\* -> {success | exhausted}: the primary is called first and once, the
\* secondary at most once and only after the primary call failed, no backend
\* is called after a result was obtained, and a failed primary call is
\* followed by the fallback when a secondary is configured.
C18_RouterStateMachine ==
    \A i \in 1..Len(tasks) :
        (Ended(i) /\ PrefersPrimary(i))
        => /\ tasks[i].calls \in {<<"claude">>, <<"claude", "gpt">>}
           /\ tasks[i].calls = <<"claude", "gpt">> => backend[i].claude = Raises
           /\ backend[i].claude # Raises => tasks[i].calls = <<"claude">>
           /\ (backend[i].claude = Raises /\ openai_client)
                => tasks[i].calls = <<"claude", "gpt">>

\* C19: when preferred_model is not the primary, evaluate_answer never calls
\* the primary backend; it calls the secondary when a secondary client is
\* configured, and otherwise fails with "No AI client available for
\* evaluation", also when a primary client is configured.
C19_SecondaryPreference ==
    \A i \in 1..Len(tasks) :
        (Ended(i) /\ ~PrefersPrimary(i))
        => IF openai_client
           THEN /\ tasks[i].calls = <<"gpt">>
                /\ tasks[i].status = "returned"
                /\ tasks[i].result.model_used = gpt_model
           ELSE /\ tasks[i].calls = <<>>
                /\ tasks[i].status = "raised"
                /\ tasks[i].result.error = "No AI client available for evaluation"

\* C19's case: the secondary is preferred, only the primary client is
\* configured, and the call failed without calling it
C19_Witness ==
    \E i \in 1..Len(tasks) :
        /\ Ended(i)
        /\ evaluation_requests[i].preferred_model = "gpt"
        /\ anthropic_client /\ ~openai_client
        /\ tasks[i].status = "raised"
        /\ tasks[i].calls = <<>>

\* call c returns in this step
Returns(c) == calls[c].pc # "done" /\ calls'[c].pc = "done"

\* the key under which the detector of a call caches the call's text
KeyOf(call) == CacheKey(call.detector, call.text)

\* the cache keeps its keys, and an entry changes only into the successful
\* result that a call for its key returns in the same step, not older than
\* the entry it replaces
CacheOnlyGrows ==
    /\ DOMAIN results_cache \subseteq DOMAIN results_cache'
    /\ \A k \in DOMAIN results_cache :
          results_cache'[k] # results_cache[k]
          => /\ results_cache'[k].result.success = TRUE
             /\ results_cache'[k].timestamp >= results_cache[k].timestamp
             /\ \E c \in DOMAIN calls :
                   /\ Returns(c)
                   /\ KeyOf(calls'[c]) = k
                   /\ calls'[c].result = results_cache'[k].result

\* C20 (as claimed): after any detector call for a text returns a result with
\* success true, the cache holds an entry for that text and detector; the set
\* of cache keys only grows, and an entry is only ever replaced by a newer
\* successful result for the same key.
C20_CacheEntryCreation ==
    [][ /\ \A c \in DOMAIN calls :
              (Returns(c) /\ calls'[c].result.success = TRUE)
              => KeyOf(calls'[c]) \in DOMAIN results_cache'
        /\ CacheOnlyGrows ]_vars

\* a complete result: built from a 200 response, not the "processing" partial
\* result of the similarity detector
Complete(r) == r.success = TRUE /\ "status" \notin DOMAIN r

\* C20 (amended): after any detector call for a text returns a complete
\* result with success true (not the "processing" partial result), the cache
\* holds an entry with that result for that text and detector; the set of
\* cache keys only grows, and an entry is only ever replaced by a newer
\* successful result for the same key.
C20_CompleteResultsCached ==
    [][ /\ \A c \in DOMAIN calls :
              (Returns(c) /\ Complete(calls'[c].result))
              => /\ KeyOf(calls'[c]) \in DOMAIN results_cache'
                 /\ results_cache'[KeyOf(calls'[c])].result = calls'[c].result
        /\ CacheOnlyGrows ]_vars

\* C20's case: a similarity call returned the partial result and left no
\* entry, a later one returned a complete result that is in the cache, and
\* the cache holds the other detector's entry too
C20_Witness ==
    /\ \E c \in Done("copyleaks") :
          /\ calls[c].result.success = TRUE
          /\ "status" \in DOMAIN calls[c].result
    /\ \E c \in Done("copyleaks") :
          /\ Complete(calls[c].result)
          /\ KeyOf(calls[c]) \in DOMAIN results_cache
          /\ results_cache[KeyOf(calls[c])].result = calls[c].result

\* a fully constructed cache entry: the pair of a complete result and the
\* time it was written
FullyConstructed(entry, now) ==
    /\ DOMAIN entry = {"result", "timestamp"}
    /\ {"success", "timestamp"} \subseteq DOMAIN entry.result
    /\ Complete(entry.result)
    /\ entry.timestamp \in 0..now
    /\ entry.result.timestamp = entry.timestamp

\* C21: under every interleaving of the detector calls that share the cache,
\* every entry is a fully constructed {result, timestamp} pair, an entry and
\* its result are never changed in place, and a write for a key replaces the
\* entry whole with what the writing call built (last write wins).
C21_AtomicPublish ==
    [][ /\ \A k \in DOMAIN results_cache' : FullyConstructed(results_cache'[k], clock')
        /\ DOMAIN results_cache \subseteq DOMAIN results_cache'
        /\ \A k \in DOMAIN results_cache' :
              (k \notin DOMAIN results_cache \/ results_cache'[k] # results_cache[k])
              => \E c \in DOMAIN calls :
                    /\ Returns(c)
                    /\ calls[c].pc \in AwaitingResponse
                    /\ KeyOf(calls[c]) = k
                    /\ results_cache'[k] =
                         [result |-> calls'[c].result, timestamp |-> clock] ]_vars

\* C21's case: two calls for the same text both missed the cache, both wrote,
\* and the entry is the later one's
C21_Witness ==
    \E c1, c2 \in DOMAIN calls :
        /\ calls[c1].pc = "done" /\ calls[c2].pc = "done"
        /\ KeyOf(calls[c1]) = KeyOf(calls[c2])
        /\ Complete(calls[c1].result) /\ Complete(calls[c2].result)
        /\ calls[c1].result.timestamp < calls[c2].result.timestamp
        /\ calls[c2].result.timestamp - calls[c1].result.timestamp < cache_ttl
        /\ results_cache[KeyOf(calls[c2])] =
             [ result    |-> calls[c2].result,
               timestamp |-> calls[c2].result.timestamp ]

\* a detector task failed: it raised, or it returned success false
Failed(r) == ~IsDict(r) \/ r.success = FALSE

PlagiarismResultFields ==
    {"is_plagiarized", "confidence_score", "ai_generated_probability",
     "sources_found", "similarity_percentage", "detection_method", "timestamp",
     "additional_info"}

\* C22: when one of the two gathered detector tasks failed or raised, a
\* PlagiarismResult is still returned; the failed signal counts as 0 (and no
\* sources), its error is recorded under additional_info, and the result of
\* the other task is used as it was returned.
C22_DetectorIsolation ==
    plagiarism_result # NoResult =>
        LET info == plagiarism_result.additional_info
        IN  /\ DOMAIN plagiarism_result = PlagiarismResultFields
            /\ Failed(ai_result) =>
                  /\ UsedAi = 0
                  /\ "error" \in DOMAIN info.ai_detection_result
            /\ Failed(traditional_result) =>
                  /\ UsedSimilarity = 0
                  /\ plagiarism_result.sources_found = <<>>
                  /\ "error" \in DOMAIN info.traditional_detection_result
            /\ ~Failed(ai_result) =>
                  /\ UsedAi = ai_result.ai_probability
                  /\ info.ai_detection_result = ai_result
            /\ ~Failed(traditional_result) =>
                  /\ UsedSimilarity = traditional_result.similarity_percentage
                  /\ info.traditional_detection_result = traditional_result

\* C22's case: the AI task raised and the similarity task's result decides
C22_Witness ==
    /\ plagiarism_result # NoResult
    /\ ~IsDict(ai_result)
    /\ ~Failed(traditional_result)
    /\ UsedSimilarity > 25 * Unit
    /\ plagiarism_result.sources_found # <<>>
    /\ plagiarism_result.is_plagiarized

\* the evaluation of the submission ended in a failure result
EvaluationFailed ==
    /\ http_response # NoResponse
    /\ tasks[1].status = "returned"
    /\ tasks[1].result.success = FALSE

\* the stored evaluation carries a manual-review entry in its feedback
ManualReviewEntry(evaluation_result) ==
    /\ "feedback" \in DOMAIN evaluation_result
    /\ \E i \in DOMAIN evaluation_result.feedback.areas_for_improvement :
          evaluation_result.feedback.areas_for_improvement[i] =
              "Response parsing failed - manual review required"

\* C23: whenever the evaluation of a submission ends in a failure result
\* (success false, from a backend error or a parse failure), the request
\* still completes with a stored record, and that record has total_score 0
\* and is flagged for manual review (needs_review true, or a manual-review
\* entry present).
C23_FailuresFlagged ==
    EvaluationFailed =>
        /\ http_response.status = 200
        /\ evaluation_data.stored
        /\ evaluation_data.total_score = [value |-> 0]
        /\ \/ evaluation_data.needs_review
           \/ ManualReviewEntry(evaluation_data.ai_evaluation)

\* C24: whenever is_plagiarized is true, detection_method names a signal
\* whose own verdict threshold is exceeded: ai_detection only if
\* ai_probability > 0.7, traditional_plagiarism only if
\* similarity_percentage > 25, pattern_based only if pattern_suspicion > 0.6.
C24_DecisiveLabel ==
    (plagiarism_result # NoResult /\ plagiarism_result.is_plagiarized) =>
        LET method == plagiarism_result.detection_method
        IN  /\ method = "ai_detection" => 10 * UsedAi > 7 * Unit
            /\ method = "traditional_plagiarism" => UsedSimilarity > 25 * Unit
            /\ method = "pattern_based" => 10 * UsedPattern > 6 * Unit

\* the configuration error of a detector
ConfigurationError(call) ==
    IF call.detector = "gptzero" THEN "GPTZero API key not provided"
    ELSE "CopyLeaks credentials not provided"

\* C25: a detector call made while the detector's credentials are missing
\* returns at once with success false and a descriptive error: it sends no
\* request (it never awaits a response and leaves the HTTP client alone), is
\* not retried, and neither reads nor writes the result cache, even when the
\* cache holds a valid entry for the same text.
C25_ConfigurationErrorsImmediate ==
    [][ \A c \in DOMAIN calls :
          (Begins(c) /\ CredentialsMissing(calls'[c]))
          => /\ calls'[c].pc = "done"
             /\ calls'[c].result.success = FALSE
             /\ calls'[c].result.error = ConfigurationError(calls'[c])
             /\ async_client' = async_client
             /\ results_cache' = results_cache ]_vars

\* C25's case: the call returned the configuration error while the cache
\* holds a valid entry for its text
C25_Witness ==
    \E c \in DOMAIN calls :
        /\ calls[c].pc = "done"
        /\ CredentialsMissing(calls[c])
        /\ calls[c].result.success = FALSE
        /\ calls[c].result.error = ConfigurationError(calls[c])
        /\ CacheHit(KeyOf(calls[c]))

\* C26: the shared HTTP client is still usable for each later network step:
\* a call that has credentials and misses the cache enters the client and
\* awaits the response to its first request, whatever calls ran before it or
\* run beside it, and a call whose token request succeeded enters the client
\* again and awaits the response to its scan submission.
C26_SharedClientUsable ==
    [][ \A c \in DOMAIN calls :
          /\ (/\ Begins(c)
              /\ ~CredentialsMissing(calls'[c])
              /\ ~CacheHit(KeyOf(calls'[c])))
             => calls'[c].pc \in AwaitingResponse
          /\ (calls[c].pc = "token" /\ calls'[c].pc = "done")
             => calls'[c].result.error \in
                  {"Authentication error", "Authentication failed"} ]_vars

\* the run of the check on the same text and detector results with the
\* reference texts refs
RunWith(refs) ==
    ComprehensivePlagiarismCheck(ai_result, traditional_result, patterns,
                                 analysed_text, refs)

PatternResultOf(r) == r.additional_info.pattern_detection_result

\* C27: two runs of the check on the same text with the same detector
\* results and different reference texts agree on is_plagiarized,
\* confidence_score and detection_method; they differ at most in
\* max_similarity and reference_similarities of the pattern result under
\* additional_info.
C27_ReferenceTextsNoInfluence ==
    plagiarism_result # NoResult =>
        \A refs \in ReferenceTexts :
            LET other == RunWith(refs)
                mine  == PatternResultOf(plagiarism_result)
            IN  /\ other.is_plagiarized = plagiarism_result.is_plagiarized
                /\ other.confidence_score = plagiarism_result.confidence_score
                /\ other.detection_method = plagiarism_result.detection_method
                /\ [other EXCEPT
                      !.additional_info.pattern_detection_result.max_similarity =
                          mine.max_similarity,
                      !.additional_info.pattern_detection_result.reference_similarities =
                          mine.reference_similarities] = plagiarism_result

\* C27's case: a run with reference texts similar to the text, whose
\* similarities differ from those of a run without reference texts, on a
\* text that the pattern signal leaves below the verdict threshold
C27_Witness ==
    /\ plagiarism_result # NoResult
    /\ PatternResultOf(plagiarism_result).max_similarity > 0
    /\ Len(PatternResultOf(plagiarism_result).reference_similarities) = MaxRefs
    /\ PatternResultOf(RunWith(NoReferences)).max_similarity = 0
    /\ 10 * UsedPattern = 6 * Unit
    /\ ~plagiarism_result.is_plagiarized

\* C28: with ai_probability within [0,1], detection_method is "ai_detection"
\* only when no pattern flag is triggered (pattern_suspicion is 0) and
\* similarity_percentage is below 1; with a flag triggered or a similarity of
\* 1 or more the label is never "ai_detection", even when ai_probability
\* above 0.7 alone made is_plagiarized true.
C28_AiLabelReach ==
    (/\ plagiarism_result # NoResult
     /\ UsedAi >= 0 /\ UsedAi <= Unit
     /\ plagiarism_result.detection_method = "ai_detection")
    => /\ patterns = {}
       /\ UsedPattern = 0
       /\ UsedSimilarity < Unit

\* C28's case: the AI signal alone decides the verdict on a text with a flag
\* triggered, and the label is not "ai_detection"
C28_Witness ==
    /\ plagiarism_result # NoResult
    /\ 10 * UsedAi > 7 * Unit /\ UsedAi <= Unit
    /\ UsedSimilarity = 0
    /\ patterns = {"citation_inconsistencies"}
    /\ plagiarism_result.is_plagiarized
    /\ plagiarism_result.detection_method = "pattern_based"

\* the result a detector builds from a 200 response
ResultOfDetector(k, r) ==
    /\ r.success = TRUE
    /\ "status" \notin DOMAIN r
    /\ IF k[1] = "gptzero"
       THEN DOMAIN r = {"success", "ai_probability", "timestamp"}
       ELSE DOMAIN r = {"success", "scan_id", "similarity_percentage",
                        "sources", "timestamp"}

\* C29: every cache entry holds a result with success true that its own
\* detector built from a 200 response; a call that returns a failure or the
\* "processing" partial result stores nothing and leaves the cache as it is,
\* and a call returns a stored result only while the entry is valid, so a
\* stale entry stays in place but is never returned.
C29_OnlyCompleteCached ==
    [][ /\ \A k \in DOMAIN results_cache' :
              /\ k \in CacheKeys
              /\ ResultOfDetector(k, results_cache'[k].result)
              /\ results_cache'[k].result = last_success'[k].result
        /\ \A c \in DOMAIN calls :
              (Returns(c) /\ ~Complete(calls'[c].result))
              => results_cache' = results_cache
        /\ \A c \in DOMAIN calls :
              (Begins(c) /\ calls'[c].pc = "done" /\ calls'[c].result.success)
              => /\ KeyOf(calls'[c]) \in DOMAIN results_cache
                 /\ calls'[c].result = results_cache[KeyOf(calls'[c])].result
                 /\ clock - results_cache[KeyOf(calls'[c])].timestamp < cache_ttl
      ]_vars

\* C29's case: after the entry expired a call got the "processing" partial
\* result, and the stale entry is still in place
C29_Witness ==
    \E c \in DOMAIN calls :
        /\ calls[c].pc = "done"
        /\ "status" \in DOMAIN calls[c].result
        /\ KeyOf(calls[c]) \in DOMAIN results_cache
        /\ calls[c].result.timestamp - results_cache[KeyOf(calls[c])].timestamp
             >= cache_ttl
        /\ ~CacheHit(KeyOf(calls[c]))

\* C30: when the primary is preferred and no primary client is configured,
\* evaluate_answer makes no primary call; with a secondary client it returns
\* what the secondary backend returns, model_used naming the secondary and
\* nothing in the result telling it from the result of a request that
\* preferred the secondary; with no client at all it raises
\* "No AI client available for evaluation".
C30_SilentReroute ==
    \A i \in 1..Len(tasks) :
        (Ended(i) /\ PrefersPrimary(i) /\ ~anthropic_client)
        => IF openai_client
           THEN /\ tasks[i].calls = <<"gpt">>
                /\ tasks[i].status = "returned"
                /\ tasks[i].result.model_used = gpt_model
                /\ tasks[i] = EvaluateAnswerWithGpt(backend[i].gpt)
                /\ tasks[i] = EvaluateAnswer("gpt", backend[i])
           ELSE /\ tasks[i].calls = <<>>
                /\ tasks[i].status = "raised"
                /\ tasks[i].result.error = "No AI client available for evaluation"

\* C30's case: the primary is preferred, only the secondary client is
\* configured, and the secondary's successful result came back
C30_Witness ==
    \E i \in 1..Len(tasks) :
        /\ Ended(i)
        /\ PrefersPrimary(i)
        /\ ~anthropic_client /\ openai_client
        /\ tasks[i].status = "returned"
        /\ tasks[i].result.success
        /\ tasks[i].result.model_used = gpt_model
        /\ tasks[i].calls = <<"gpt">>

====
